---- MODULE Spec2Model ----
(***************************************************************************)
(* Model of add_icon.py: the icon compositor pipeline                       *)
(*   open base -> open icon -> resize icon -> position -> output path ->    *)
(*   composite and save                                                     *)
(* and its driver main() with the single-icon and the "all" mode.           *)
(*                                                                          *)
(* Strings are sequences of one-character strings, so that os.path.split,   *)
(* os.path.splitext, os.path.join, str.lower and str.endswith are computed  *)
(* character by character as the library computes them.                     *)
(* An image is its size <<width, height>>; pixel data is not modelled.      *)
(* The true divisions of _resize_icon are kept as exact fractions           *)
(* <<numerator, denominator>> and truncated by int() only where the code    *)
(* truncates.  (Within the sizes explored here the double-precision result  *)
(* of int((H / 40) * (w / h)) equals the exact truncation.)                 *)
(***************************************************************************)
EXTENDS Integers, Sequences, FiniteSets, TLC

----------------------------------------------------------------------------
(* Program constants *)

IMAGE_HEIGHT_TO_ICON_HEIGHT_RATIO == 40

IMAGE_HEIGHT_TO_PADDING_RATIO == 100

\* The value None of Python.  An optional string is None or Some(string), so
\* that None and the empty string stay apart; an optional size is None or the
\* pair <<width, height>>.
None == <<>>

Some(x) == <<x>>

\* No exception pending.
NoException == "None"

\* The literal 'all' compared against icon_name.lower().
ALL == <<"a", "l", "l">>

\* The literal '.png' of f.endswith('.png').
PNG == <<".", "p", "n", "g">>

\* The literal "_with_icon_" of the output file name.
WITH_ICON == <<"_", "w", "i", "t", "h", "_", "i", "c", "o", "n", "_">>

\* os.path.join('icon', 'png'), the fixed icon directory.
ICON_DIR == <<"i", "c", "o", "n", "/", "p", "n", "g">>

----------------------------------------------------------------------------
(* String and path library functions, as posixpath computes them *)

SetMax(S) == CHOOSE m \in S : \A k \in S : k <= m

\* str.rfind(c) + 1: the 1-based index of the last c in s, 0 when absent.
RFind(s, c) ==
    LET hits == {k \in 1..Len(s) : s[k] = c}
    IN  IF hits = {} THEN 0 ELSE SetMax(hits)

\* str.rstrip(c)
RStrip(s, c) ==
    LET keep == {k \in 1..Len(s) : s[k] # c}
    IN  IF keep = {} THEN <<>> ELSE SubSeq(s, 1, SetMax(keep))

\* str.endswith(suffix)
EndsWith(s, suffix) ==
    /\ Len(s) >= Len(suffix)
    /\ SubSeq(s, Len(s) - Len(suffix) + 1, Len(s)) = suffix

\* str.lower() on the letters that occur in the icon argument.
LowerChar(c) ==
    CASE c = "A" -> "a"
      [] c = "L" -> "l"
      [] OTHER   -> c

Lower(s) == [k \in 1..Len(s) |-> LowerChar(s[k])]

\* os.path.split: <<head, tail>>, tail has no slash, trailing slashes are
\* stripped from head unless head is all slashes.
os_path_split(p) ==
    LET i    == RFind(p, "/")
        head == SubSeq(p, 1, i)
        tail == SubSeq(p, i + 1, Len(p))
    IN  << IF head # <<>> /\ (\E k \in 1..Len(head) : head[k] # "/")
              THEN RStrip(head, "/")
              ELSE head,
           tail >>

\* os.path.splitext: <<root, ext>>; the extension starts at the last dot of
\* the last component, leading dots of that component are not an extension.
os_path_splitext(p) ==
    LET sepIndex == RFind(p, "/")
        dotIndex == RFind(p, ".")
    IN  IF /\ dotIndex > sepIndex
           /\ \E k \in (sepIndex + 1)..(dotIndex - 1) : p[k] # "."
        THEN << SubSeq(p, 1, dotIndex - 1), SubSeq(p, dotIndex, Len(p)) >>
        ELSE << p, <<>> >>

\* os.path.join(a, b)
os_path_join(a, b) ==
    IF b # <<>> /\ b[1] = "/" THEN b
    ELSE IF a = <<>> \/ a[Len(a)] = "/" THEN a \o b
    ELSE a \o <<"/">> \o b

----------------------------------------------------------------------------
(* Pure functions of the pipeline *)

\* int(x) of a non-negative fraction x = <<numerator, denominator>>.
IntOf(x) == x[1] \div x[2]

\* Variant of _resize_icon that clamps both dimensions to at least 1
\* (max(1, ...)), so that no size below 1 x 1 reaches Image.resize.
_resize_icon_clamped(icon_size, base_height) ==
    LET w == (base_height * icon_size[1])
                 \div (IMAGE_HEIGHT_TO_ICON_HEIGHT_RATIO * icon_size[2])
        h == base_height \div IMAGE_HEIGHT_TO_ICON_HEIGHT_RATIO
    IN  << IF w < 1 THEN 1 ELSE w, IF h < 1 THEN 1 ELSE h >>

\* _resize_icon: the size given to icon_image.resize.
\*   new_icon_height = base_height / 40            (not truncated)
\*   aspect_ratio    = icon_width / icon_height
\*   new_icon_width  = int(new_icon_height * aspect_ratio)
\*   size            = (new_icon_width, int(new_icon_height))
\* Requires icon_size[2] # 0 (the division raises ZeroDivisionError).
_resize_icon(icon_size, base_height) ==
    LET new_icon_height == << base_height, IMAGE_HEIGHT_TO_ICON_HEIGHT_RATIO >>
        aspect_ratio    == << icon_size[1], icon_size[2] >>
        product         == << new_icon_height[1] * aspect_ratio[1],
                              new_icon_height[2] * aspect_ratio[2] >>
        new_icon_width  == IntOf(product)
    IN  << new_icon_width, IntOf(new_icon_height) >>

\* Variant of _calculate_position that clamps the coordinates at 0.
_calculate_position_clamped(base_size, icon_size) ==
    LET padding == base_size[2] \div IMAGE_HEIGHT_TO_PADDING_RATIO
        x       == base_size[1] - icon_size[1] - padding
        y       == base_size[2] - icon_size[2] - padding
    IN  << IF x < 0 THEN 0 ELSE x, IF y < 0 THEN 0 ELSE y >>

\* _calculate_position
_calculate_position(base_size, icon_size) ==
    LET base_width  == base_size[1]
        base_height == base_size[2]
        icon_width  == icon_size[1]
        icon_height == icon_size[2]
        padding     == IntOf(<< base_height, IMAGE_HEIGHT_TO_PADDING_RATIO >>)
    IN  << base_width - icon_width - padding,
           base_height - icon_height - padding >>

\* Variant of _generate_output_path that keeps the icon's extension instead
\* of the base image's.
_generate_output_path_icon_ext(path, icon) ==
    LET dir_name  == os_path_split(path)[1]
        file_name == os_path_split(path)[2]
        name      == os_path_splitext(file_name)[1]
    IN  os_path_join(dir_name, name \o WITH_ICON \o icon)

\* _generate_output_path
_generate_output_path(path, icon) ==
    LET dir_name       == os_path_split(path)[1]
        file_name      == os_path_split(path)[2]
        name           == os_path_splitext(file_name)[1]
        ext            == os_path_splitext(file_name)[2]
        icon_name_part == os_path_splitext(icon)[1]
    IN  os_path_join(dir_name, name \o WITH_ICON \o icon_name_part \o ext)

----------------------------------------------------------------------------
(* Exceptions *)

\* The exception classes the pipeline's library calls raise; all of them are
\* subclasses of Exception.
ExceptionClasses ==
    {"FileNotFoundError", "UnidentifiedImageError", "ZeroDivisionError",
     "ValueError", "PermissionError"}

\* Variant without the "except Exception" clause.
except_clause_file_not_found_only(e) ==
    IF e = "FileNotFoundError" THEN "except FileNotFoundError" ELSE "uncaught"

\* The except clause of _add_icon_to_single_image that catches e.
except_clause(e) ==
    IF e = "FileNotFoundError" THEN "except FileNotFoundError"
    ELSE IF e \in ExceptionClasses THEN "except Exception"
    ELSE "uncaught"

----------------------------------------------------------------------------
(* Driver helpers *)

\* not output_path
Falsy(x) == x = None \/ x = Some(<<>>)

\* Variant of the listing filter that keeps every file.
png_filter_any(f) == TRUE

\* [f for f in os.listdir(icon_dir) if f.endswith('.png')]
png_filter(f) == EndsWith(f, PNG)

list_icons(listing) ==
    SelectSeq([k \in 1..Len(listing) |-> listing[k].name], png_filter)

\* Variant that hands the -o path to every call of the batch.
batch_output_path_passed(user_output_path) == user_output_path

\* The output_path argument main passes for each icon of the batch.
batch_output_path(user_output_path) == None

\* Variant that leaves the for loop at the first failed call.
after_batch_call_break(result, index, count) ==
    IF result = None \/ index + 1 > count THEN "done" ELSE "loop"

\* After one call of the batch returned: the for loop goes on with the next
\* icon whatever the call returned, and ends after the last one.
after_batch_call(result, index, count) ==
    IF index + 1 > count THEN "done" ELSE "loop"

----------------------------------------------------------------------------
(* State *)

VARIABLES
    base_image_path,  \* main's argument: path of the base image
    icon_name,        \* main's argument: icon file name, or 'all' in any case
    output_path,      \* main's argument: None or the -o path
    base_file,        \* file system: the file at base_image_path,
                      \*   [kind: "image" | "corrupt" | "missing", size]
    icon_dir,         \* file system: [exists, listing], listing the
                      \*   os.listdir order of icon/png, entries
                      \*   [name, file] with file like base_file
    unwritable,       \* file system: paths final_image.save cannot write
    pc,               \* main: "main", "loop", "call", "single", "done",
                      \*   "crashed" (an exception left main)
    icons,            \* main: the filtered icon list
    i,                \* main: 1-based index of the for loop
    step,             \* _add_icon_to_single_image: position in the call
    arg_icon,         \* its icon_name parameter
    arg_out,          \* its output_path parameter (reassigned at line 150)
    base_image,       \* its locals, None until assigned
    icon_image,
    resized_icon,
    position,
    error,            \* the exception raised in the try block, or NoException
    saved,            \* history of final_image.save: [path, size, icon, at]
    returned,         \* history of the calls: [icon, out, result]
    messages          \* status text printed by main and by the except clauses

vars == << base_image_path, icon_name, output_path, base_file, icon_dir,
           unwritable, pc, icons, i, step, arg_icon, arg_out, base_image,
           icon_image, resized_icon, position, error, saved, returned,
           messages >>

inputs == << base_image_path, icon_name, output_path, base_file, icon_dir,
             unwritable >>

main_locals == << icons, i >>

call_locals == << arg_icon, arg_out, base_image, icon_image, resized_icon,
                  position, error >>

\* The file the path names inside the icon directory.
Missing == [kind |-> "missing", size |-> None]

icon_file(path) ==
    LET hits == {k \in 1..Len(icon_dir.listing) :
                   os_path_join(ICON_DIR, icon_dir.listing[k].name) = path}
    IN  IF ~icon_dir.exists \/ hits = {} THEN Missing
        ELSE icon_dir.listing[CHOOSE k \in hits : TRUE].file

\* Entering _add_icon_to_single_image(base_image_path, icon, out).
Call(icon, out) ==
    /\ step' = "open_base"
    /\ arg_icon' = icon
    /\ arg_out' = out
    /\ base_image' = None
    /\ icon_image' = None
    /\ resized_icon' = None
    /\ position' = None
    /\ error' = NoException

\* An exception raised inside the try block.
Raise(e) ==
    /\ error' = e
    /\ step' = "except"

----------------------------------------------------------------------------
(* main *)

\* main, icon_name.lower() == 'all': lines 173-185.
MainAll ==
    /\ pc = "main"
    /\ Lower(icon_name) = ALL
    /\ IF ~icon_dir.exists
       THEN /\ messages' = Append(messages, "Error: Icon directory not found")
            /\ pc' = "done"
            /\ UNCHANGED main_locals
       ELSE IF list_icons(icon_dir.listing) = <<>>
       THEN /\ messages' = Append(messages, "No icons found")
            /\ pc' = "done"
            /\ icons' = <<>>
            /\ UNCHANGED i
       ELSE /\ messages' = Append(messages, "Found icons")
            /\ icons' = list_icons(icon_dir.listing)
            /\ i' = 1
            /\ pc' = "loop"
    /\ UNCHANGED << inputs, step, call_locals, saved, returned >>

\* main, one iteration of the for loop: lines 185-187.
LoopCall ==
    /\ pc = "loop"
    /\ i <= Len(icons)
    /\ messages' = Append(messages, "Processing icon")
    /\ Call(icons[i], batch_output_path(output_path))
    /\ pc' = "call"
    /\ UNCHANGED << inputs, main_locals, saved, returned >>

\* main, otherwise: line 190.
MainSingle ==
    /\ pc = "main"
    /\ Lower(icon_name) # ALL
    /\ Call(icon_name, output_path)
    /\ pc' = "single"
    /\ UNCHANGED << inputs, main_locals, saved, returned, messages >>

----------------------------------------------------------------------------
(* _add_icon_to_single_image *)

\* Image.open(path).convert("RGBA") on a file.
_open_image(file) ==
    CASE file.kind = "missing" -> [raises |-> "FileNotFoundError", image |-> None]
      [] file.kind = "corrupt" -> [raises |-> "UnidentifiedImageError", image |-> None]
      [] OTHER                 -> [raises |-> NoException, image |-> file.size]

\* line 143
OpenBase ==
    /\ step = "open_base"
    /\ LET r == _open_image(base_file)
       IN  IF r.raises # NoException
           THEN Raise(r.raises) /\ UNCHANGED base_image
           ELSE /\ base_image' = r.image
                /\ step' = "open_icon"
                /\ UNCHANGED error
    /\ UNCHANGED << inputs, pc, main_locals, arg_icon, arg_out, icon_image,
                    resized_icon, position, saved, returned, messages >>

\* lines 141 and 144
OpenIcon ==
    /\ step = "open_icon"
    /\ LET icon_path == os_path_join(ICON_DIR, arg_icon)
           r         == _open_image(icon_file(icon_path))
       IN  IF r.raises # NoException
           THEN Raise(r.raises) /\ UNCHANGED icon_image
           ELSE /\ icon_image' = r.image
                /\ step' = "resize"
                /\ UNCHANGED error
    /\ UNCHANGED << inputs, pc, main_locals, arg_icon, arg_out, base_image,
                    resized_icon, position, saved, returned, messages >>

\* line 146: _resize_icon. icon_width / icon_height raises on a zero height;
\* Image.resize raises ValueError("height and width must be > 0") on a size
\* below 1 x 1.
ResizeIcon ==
    /\ step = "resize"
    /\ IF icon_image[2] = 0
       THEN Raise("ZeroDivisionError") /\ UNCHANGED resized_icon
       ELSE LET size == _resize_icon(icon_image, base_image[2])
            IN  IF size[1] < 1 \/ size[2] < 1
                THEN Raise("ValueError") /\ UNCHANGED resized_icon
                ELSE /\ resized_icon' = size
                     /\ step' = "position"
                     /\ UNCHANGED error
    /\ UNCHANGED << inputs, pc, main_locals, arg_icon, arg_out, base_image,
                    icon_image, position, saved, returned, messages >>

\* line 147
CalculatePosition ==
    /\ step = "position"
    /\ position' = _calculate_position(base_image, resized_icon)
    /\ step' = "output_path"
    /\ UNCHANGED << inputs, pc, main_locals, arg_icon, arg_out, base_image,
                    icon_image, resized_icon, error, saved, returned,
                    messages >>

\* lines 149-150
GenerateOutputPath ==
    /\ step = "output_path"
    /\ arg_out' = IF Falsy(arg_out)
                  THEN Some(_generate_output_path(base_image_path, arg_icon))
                  ELSE arg_out
    /\ step' = "save"
    /\ UNCHANGED << inputs, pc, main_locals, arg_icon, base_image, icon_image,
                    resized_icon, position, error, saved, returned, messages >>

\* line 152: _composite_and_save. The icon is pasted on a transparent layer
\* of the base image's size (a paste box partly or wholly outside the layer
\* is clipped), the layer is composited over the base image and the result,
\* of the base image's size, is saved as PNG.
CompositeAndSave ==
    /\ step = "save"
    /\ IF arg_out[1] \in unwritable
       THEN Raise("PermissionError") /\ UNCHANGED saved
       ELSE /\ saved' = Append(saved, [path |-> arg_out[1],
                                       size |-> base_image,
                                       icon |-> arg_icon,
                                       at   |-> position,
                                       format |-> "PNG"])
            /\ step' = "return"
            /\ UNCHANGED error
    /\ UNCHANGED << inputs, pc, main_locals, arg_icon, arg_out, base_image,
                    icon_image, resized_icon, position, returned, messages >>

\* lines 155-160: the except clauses. An exception no clause catches leaves
\* _add_icon_to_single_image and main.
Except ==
    /\ step = "except"
    /\ LET clause == except_clause(error)
       IN  IF clause = "uncaught"
           THEN /\ pc' = "crashed"
                /\ step' = "idle"
                /\ UNCHANGED messages
           ELSE /\ messages' = Append(messages,
                      IF clause = "except FileNotFoundError"
                      THEN "Error: Please check file paths."
                      ELSE "An error occurred")
                /\ step' = "return"
                /\ UNCHANGED pc
    /\ UNCHANGED << inputs, main_locals, call_locals, saved, returned >>

\* lines 153, 157, 160: return output_path, or None after an exception;
\* main goes on (the single call was its last statement, the batch takes
\* the next icon).
Return ==
    /\ step = "return"
    /\ LET result == IF error = NoException THEN arg_out ELSE None
       IN  /\ returned' = Append(returned, [icon |-> arg_icon, result |-> result])
           /\ IF pc = "single"
              THEN pc' = "done" /\ UNCHANGED i
              ELSE /\ pc' = after_batch_call(result, i, Len(icons))
                   /\ i' = i + 1
    /\ step' = "idle"
    /\ UNCHANGED << inputs, icons, call_locals, saved, messages >>

----------------------------------------------------------------------------
(* Inputs explored *)

\* Files of icon/png in one listing of the driver runs.
MaxDirFiles == 2

\* Base image sizes of the geometry runs: 1..MaxBaseWidth x 1..MaxBaseHeight.
MaxBaseWidth == 2

MaxBaseHeight == 121

\* Icon sizes of the geometry runs: 1..MaxIconWidth x 0..MaxIconHeight.
MaxIconWidth == 3

MaxIconHeight == 3

\* Longest base image path, and longest icon name before its '.png', of the
\* path runs.
MaxPathLen == 3

MaxStemLen == 1

\* All strings over an alphabet up to a length.
Strings(alphabet, n) == UNION {[1..k -> alphabet] : k \in 0..n}

Image(size) == [kind |-> "image", size |-> size]

Corrupt == [kind |-> "corrupt", size |-> None]

\* 'a/b.jpg', 'x.png', 'y.png', 'z.png', 'red.png', 'n.txt', 'o.png'
P_a_b_jpg == <<"a", "/", "b", ".", "j", "p", "g">>

X_PNG == <<"x">> \o PNG

Y_PNG == <<"y">> \o PNG

Z_PNG == <<"z">> \o PNG

RED_PNG == <<"r", "e", "d">> \o PNG

N_TXT == <<"n", ".", "t", "x", "t">>

O_PNG == <<"o">> \o PNG

\* Directory listings: up to n entries with pairwise different names, in any
\* order (os.listdir promises none).
Listings(names, files, n) ==
    UNION { { l \in [1..k -> [name : names, file : files]] :
                \A a, b \in 1..k : a # b => l[a].name # l[b].name }
            : k \in 0..n }

\* A path that can name a regular file: its last component is not empty and
\* is neither '.' nor '..'.
IsFilePath(p) ==
    os_path_split(p)[2] \notin { <<>>, <<".">>, <<".", ".">> }

InitLocals ==
    /\ pc = "main"
    /\ icons = <<>>
    /\ i = 0
    /\ step = "idle"
    /\ arg_icon = <<>>
    /\ arg_out = None
    /\ base_image = None
    /\ icon_image = None
    /\ resized_icon = None
    /\ position = None
    /\ error = NoException
    /\ saved = <<>>
    /\ returned = <<>>
    /\ messages = <<>>

\* The driver runs: both modes, missing and corrupt files, a base image too
\* low for any icon and one high enough, an unwritable output path.
Init ==
    /\ base_image_path = P_a_b_jpg
    /\ icon_name \in {ALL, <<"A", "l", "L">>, X_PNG, Z_PNG}
    /\ output_path \in {None, Some(<<>>), Some(O_PNG),
                        Some(_generate_output_path(P_a_b_jpg, X_PNG))}
    /\ base_file \in {Missing, Corrupt}
           \cup {Image(<<2, h>>) : h \in {IMAGE_HEIGHT_TO_ICON_HEIGHT_RATIO - 1,
                                          2 * IMAGE_HEIGHT_TO_ICON_HEIGHT_RATIO}}
    /\ icon_dir \in {[exists |-> FALSE, listing |-> <<>>]}
           \cup {[exists |-> TRUE, listing |-> l] :
                   l \in Listings({X_PNG, Y_PNG, N_TXT},
                                  {Corrupt, Image(<<1, 1>>)}, MaxDirFiles)}
    /\ unwritable \in {{}, {O_PNG}, {_generate_output_path(P_a_b_jpg, X_PNG)}}
    /\ InitLocals

Next ==
    \/ MainAll
    \/ LoopCall
    \/ MainSingle
    \/ OpenBase
    \/ OpenIcon
    \/ ResizeIcon
    \/ CalculatePosition
    \/ GenerateOutputPath
    \/ CompositeAndSave
    \/ Except
    \/ Return

Spec == Init /\ [][Next]_vars

\* The geometry runs: one icon on one base image, every size in the bounds.
InitGeom ==
    /\ base_image_path = P_a_b_jpg
    /\ icon_name = X_PNG
    /\ output_path = None
    /\ base_file \in {Image(<<W, H>>) : W \in 1..MaxBaseWidth,
                                        H \in 1..MaxBaseHeight}
    /\ icon_dir \in {[exists |-> TRUE,
                      listing |-> << [name |-> X_PNG, file |-> Image(<<w, h>>)] >>] :
                        w \in 1..MaxIconWidth, h \in 0..MaxIconHeight}
    /\ unwritable = {}
    /\ InitLocals

NextGeom ==
    \/ MainSingle
    \/ OpenBase
    \/ OpenIcon
    \/ ResizeIcon
    \/ CalculatePosition
    \/ GenerateOutputPath
    \/ CompositeAndSave
    \/ Except
    \/ Return

SpecGeom == InitGeom /\ [][NextGeom]_vars

\* The path runs: a batch over two icons, every base path and every pair of
\* icon names in the bounds.
PathBasePaths ==
    {p \in Strings({"a", "/", "."}, MaxPathLen) : IsFilePath(p)} \cup {P_a_b_jpg}

PathIconNames ==
    LET stems == Strings({"x", "."}, MaxStemLen)
    IN  {s \o PNG : s \in stems} \cup {s \o PNG \o PNG : s \in stems}
            \cup {RED_PNG}

InitPath ==
    /\ base_image_path \in PathBasePaths
    /\ icon_name = ALL
    /\ output_path = None
    /\ base_file = Image(<<2, 2 * IMAGE_HEIGHT_TO_ICON_HEIGHT_RATIO>>)
    /\ icon_dir \in {[exists |-> TRUE,
                      listing |-> << [name |-> n[1], file |-> Image(<<1, 1>>)],
                                     [name |-> n[2], file |-> Image(<<1, 1>>)] >>] :
                        n \in {m \in PathIconNames \X PathIconNames :
                                 m[1] # m[2]}}
    /\ unwritable = {}
    /\ InitLocals

NextPath ==
    \/ MainAll
    \/ LoopCall
    \/ OpenBase
    \/ OpenIcon
    \/ ResizeIcon
    \/ CalculatePosition
    \/ GenerateOutputPath
    \/ CompositeAndSave
    \/ Return

SpecPath == InitPath /\ [][NextPath]_vars

----------------------------------------------------------------------------
(* Properties *)

AllMode == Lower(icon_name) = ALL

\* The icon names main enumerates, read off the directory listing.
ListedIcons ==
    {icon_dir.listing[k].name : k \in {j \in 1..Len(icon_dir.listing) :
                                         EndsWith(icon_dir.listing[j].name, PNG)}}

Abs(n) == IF n < 0 THEN -n ELSE n

\* C1: for every positive base height H and icon of size (w, h), h > 0, the
\* resized icon has height floor(H / 40) and width
\* floor(floor(H / 40) * w / h), the width computed from the truncated height.
C1_WidthFromTruncatedHeight ==
    resized_icon # None =>
        LET H == base_image[2]
            w == icon_image[1]
            h == icon_image[2]
        IN  resized_icon = << ((H \div 40) * w) \div h, H \div 40 >>

\* C8: the resized icon's width differs by at most 1 from
\* (resized height) * w / h, (w, h) the original icon size.
C8_AspectWithinOnePixel ==
    resized_icon # None =>
        LET w == icon_image[1]
            h == icon_image[2]
        IN  Abs(resized_icon[1] * h - resized_icon[2] * w) <= h

\* C5: the paste position is exactly (W - iw - p, H - ih - p) with
\* p = floor(H / 100), unclamped, and a negative coordinate goes on to the
\* compositor, which saves the result without an error.
C5_PositionUnclamped ==
    position # None =>
        LET W == base_file.size[1]
            H == base_file.size[2]
            p == H \div 100
        IN  /\ position = << W - resized_icon[1] - p, H - resized_icon[2] - p >>
            /\ error = NoException
            /\ step \in {"return", "idle"} =>
                   /\ Len(saved) = 1
                   /\ saved[1].at = position

C5_Witness ==
    /\ saved # <<>>
    /\ saved[1].at[1] < 0
    /\ base_file.size[2] >= IMAGE_HEIGHT_TO_PADDING_RATIO
    /\ step = "idle"

\* Degenerate resize inputs: an icon of height 0, a base image lower than 40,
\* or a computed icon width below 1.
Degenerate(icon_size, base_height) ==
    \/ icon_size[2] = 0
    \/ base_height < 40
    \/ base_height * icon_size[1] < 40 * icon_size[2]

\* C9: on degenerate resize inputs the resize step fails (ZeroDivisionError
\* for an icon height of 0, ValueError for a computed size below 1 x 1), no
\* resized icon exists and the call never reaches compositing and saving.
C9_DegenerateResizeFails ==
    (icon_image # None /\ Degenerate(icon_image, base_image[2])) =>
        /\ resized_icon = None
        /\ position = None
        /\ saved = <<>>
        /\ step \in {"resize", "except", "return", "idle"}
        /\ step # "resize" => error \in {"ZeroDivisionError", "ValueError"}

C9_Witness ==
    /\ step = "idle"
    /\ pc = "done"
    /\ icon_image # None
    /\ icon_image[2] > 0
    /\ base_image[2] < IMAGE_HEIGHT_TO_ICON_HEIGHT_RATIO
    /\ error = "ValueError"
    /\ returned[1].result = None

\* The calls of the pipeline that returned a path.
Succeeded == {k \in 1..Len(returned) : returned[k].result # None}

ErrorMessages == {"Error: Please check file paths.", "An error occurred"}

\* C4: every exception raised by a step of the pipeline is caught inside
\* _add_icon_to_single_image: a status message is printed, the call returns
\* None, nothing is saved for that image, and no exception reaches main, in
\* single-icon and in "all" mode.
C4_ErrorsCaught ==
    /\ pc # "crashed"
    /\ (step \in {"return", "idle"} /\ error # NoException) =>
           /\ messages # <<>>
           /\ messages[Len(messages)] \in ErrorMessages
           /\ \A k \in 1..Len(saved) : saved[k].icon # arg_icon
    /\ (step = "idle" /\ error # NoException) =>
           returned[Len(returned)] = [icon |-> arg_icon, result |-> None]
    /\ Len(saved) = Cardinality(Succeeded)
                      + (IF step = "return" /\ error = NoException THEN 1 ELSE 0)

C4_Witness ==
    /\ pc = "done"
    /\ AllMode
    /\ Len(returned) = 2
    /\ returned[1].result = None
    /\ error = "PermissionError"
    /\ saved = <<>>

\* An icon whose processing meets no error: base image and icon decode, the
\* resize inputs are not degenerate and the derived path is writable.
Processable(name) ==
    LET f == icon_file(os_path_join(ICON_DIR, name))
    IN  /\ base_file.kind = "image"
        /\ f.kind = "image"
        /\ ~Degenerate(f.size, base_file.size[2])
        /\ _generate_output_path(base_image_path, name) \notin unwritable

\* C3: in "all" mode the pipeline is invoked once per enumerated .png icon,
\* in enumeration order; a failing icon does not end the loop, every later
\* icon is processed and a processable one leaves its output file. The run
\* stops only when main is done.
C3_BatchProcessesEveryIcon ==
    (AllMode /\ icon_dir.exists) =>
        LET listed == SelectSeq([k \in 1..Len(icon_dir.listing) |->
                                    icon_dir.listing[k].name],
                                LAMBDA f : EndsWith(f, PNG))
        IN  /\ pc # "done" => ENABLED Next
            /\ Len(returned) <= Len(listed)
            /\ \A k \in 1..Len(returned) : returned[k].icon = listed[k]
            /\ pc \in {"done", "crashed"} => Len(returned) = Len(listed)
            /\ \A k \in 1..Len(returned) :
                   Processable(listed[k]) =>
                       /\ returned[k].result =
                              Some(_generate_output_path(base_image_path, listed[k]))
                       /\ \E j \in 1..Len(saved) :
                              /\ saved[j].icon = listed[k]
                              /\ Some(saved[j].path) = returned[k].result

C3_Witness ==
    /\ AllMode
    /\ pc = "done"
    /\ Len(returned) = 2
    /\ returned[1].result = None
    /\ returned[2].result # None
    /\ Len(saved) = 1
    /\ saved[1].icon = returned[2].icon

C7_NoIconsNoPipeline ==
    (AllMode /\ (~icon_dir.exists \/ ListedIcons = {})) =>
        /\ pc \in {"main", "done"}
        /\ step = "idle"
        /\ returned = <<>>
        /\ saved = <<>>
        /\ error = NoException
        /\ pc = "done" =>
               messages = << IF icon_dir.exists
                             THEN "No icons found"
                             ELSE "Error: Icon directory not found" >>

C7_Witness ==
    /\ AllMode
    /\ pc = "done"
    /\ icon_dir.exists
    /\ Len(icon_dir.listing) > 0
    /\ messages = << "No icons found" >>

\* C2: with no explicit output path the result is
\* <directory of base>/<base name>_with_icon_<icon name without extension><base extension>:
\* it lies in the base image's directory, its file name is the base name,
\* "_with_icon_", the icon's name without its extension and the base image's
\* extension, and a base image with an extension passes it on to the result
\* (a/b.jpg with red.png gives a/b_with_icon_red.jpg).
C2_DerivedOutputPath ==
    \A k \in 1..Len(saved) :
        LET out       == saved[k].path
            icon      == saved[k].icon
            base_dir  == os_path_split(base_image_path)[1]
            base_file_name == os_path_split(base_image_path)[2]
            base_name == os_path_splitext(base_file_name)[1]
            base_ext  == os_path_splitext(base_file_name)[2]
            icon_ext  == os_path_splitext(icon)[2]
            icon_stem == SubSeq(icon, 1, Len(icon) - Len(icon_ext))
        IN  /\ os_path_split(out)[1] = base_dir
            /\ os_path_split(out)[2] = base_name \o WITH_ICON \o icon_stem \o base_ext
            /\ base_ext # <<>> => os_path_splitext(out)[2] = base_ext
            /\ (base_image_path = P_a_b_jpg /\ icon = RED_PNG) =>
                   out = <<"a", "/", "b">> \o WITH_ICON
                             \o <<"r", "e", "d", ".", "j", "p", "g">>

C2_Witness ==
    /\ base_image_path = P_a_b_jpg
    /\ \E k \in 1..Len(saved) :
           /\ saved[k].icon = RED_PNG
           /\ saved[k].path = <<"a", "/", "b">> \o WITH_ICON
                                  \o <<"r", "e", "d", ".", "j", "p", "g">>

\* C10: in one batch any two different icon names ending in .png derive
\* different output paths and no derived path is the base image path, so no
\* save of the batch overwrites the base image or another icon's output.
C10_BatchOutputsDistinct ==
    /\ \A a, b \in 1..Len(saved) :
           saved[a].icon # saved[b].icon => saved[a].path # saved[b].path
    /\ \A a \in 1..Len(saved) : saved[a].path # base_image_path

====
